---- MODULE Spec2Model ----
(***************************************************************************)
(* Model of dreamer/networks.py: TransitionModel.forward (the RSSM time    *)
(* recursion) and ActorModel.forward with SampleDist.mean.                 *)
(*                                                                         *)
(* Tensors are modelled as terms (tuples whose first element is a tag):    *)
(* the learned maps (nn.Linear, nn.GRUCell, the activation) are            *)
(* uninterpreted constructors, so a value records exactly which inputs it  *)
(* was computed from.  The quantities the code constrains numerically      *)
(* (std-devs, the actor's samples) are fixed-point integers: hundredths    *)
(* for std-devs, thousandths for tanh outputs.  The time axis is modelled  *)
(* exactly; batch and feature axes are collapsed to one element.           *)
(* Python lists are functions on 0..T-1 so that indices read as in the     *)
(* source.                                                                 *)
(***************************************************************************)
EXTENDS Integers, Sequences, FiniteSets, TLC

\* ---------------------------------------------------------------- bounds
MaxL == 3        \* longest action sequence explored
MaxSlack == 1    \* how far an optional sequence's length may be off
Samples == 2     \* SampleDist draws per call (the code's default is 100)

\* ------------------------------------------------------ tensor terms
Empty == <<"empty">>                \* torch.empty(0) placeholder
Zero == <<"zero">>                  \* an all-zero tensor
PrevBelief == <<"prev_belief">>     \* argument prev_belief
PrevState == <<"prev_state">>       \* argument prev_state
Action(i) == <<"action", i>>        \* actions[i]
Obs(i) == <<"obs", i>>              \* observations[i]
Tag(x) == x[1]

RawStdVals == {-3, 2}               \* raw std-dev outputs of the state heads
MinStdDevs == {0, 10}               \* configured min_std_dev, in hundredths

\* F.softplus, in hundredths, on the integers -3..3
softplus(x) ==
  CASE x = -3 -> 5 [] x = -2 -> 13 [] x = -1 -> 31 [] x = 0 -> 69
    [] x = 1 -> 131 [] x = 2 -> 213 [] x = 3 -> 305

\* Python / torch indexing along dimension 0: negative indices wrap,
\* anything else outside the sequence raises IndexError.
IndexInRange(seq, i) == i >= -Len(seq) /\ i < Len(seq)
Index(seq, i) == IF i >= 0 THEN seq[i + 1] ELSE seq[Len(seq) + i + 1]

cat(a, b) == <<"cat", a, b>>
act_fn(x) == <<"act_fn", x>>
fc_embed_state_action(x) == <<"fc_embed_state_action", x>>
rnn(h, b) == <<"rnn", h, b>>
fc_embed_belief_prior(b) == <<"fc_embed_belief_prior", b>>
fc_state_prior(h) == <<"fc_state_prior", h>>
fc_embed_belief_posterior(x) == <<"fc_embed_belief_posterior", x>>
fc_state_posterior(h) == <<"fc_state_posterior", h>>
chunk_mean(x) == <<"chunk0", x>>
randn_like(kind, i) == <<"randn", kind, i>>
Std(v) == <<"std", v>>
Sample(mean, std, noise) == <<"sample", mean, std, noise>>

VARIABLES
  pc,                 \* "idle", "loop", "done", "error"
  err,                \* "none", "IndexError", "RuntimeError"
  min_std_dev,        \* self.min_std_dev
  actions, observations, nonterminals,     \* arguments of forward
  T, t, _state,       \* locals of forward
  beliefs, prior_states, prior_means, prior_std_devs,
  posterior_states, posterior_means, posterior_std_devs,
  hidden,             \* the returned list
  apc, mean, std, deterministic, draws, action   \* ActorModel.forward, two calls

tvars == <<pc, err, min_std_dev, actions, observations, nonterminals, T, t,
           _state, beliefs, prior_states, prior_means, prior_std_devs,
           posterior_states, posterior_means, posterior_std_devs, hidden>>
avars == <<apc, mean, std, deterministic, draws, action>>
vars == <<tvars, avars>>

\* An optional argument: None, or a sequence along the time axis.
None == [isNone |-> TRUE, data |-> <<>>]
Some(s) == [isNone |-> FALSE, data |-> s]

Placeholders(n) == [i \in 0..(n - 1) |-> Empty]

\* lengths an optional sequence may have when `want` is the matching one
Lengths(want) == {n \in (want - MaxSlack)..(want + MaxSlack) : n >= 0}
Masks(n) == [1..n -> {0, 1}]

ActorIdle ==
  /\ apc = "idle" /\ mean = 0 /\ std = 0
  /\ deterministic = <<>> /\ draws = <<>> /\ action = <<>>

Init ==
  /\ pc = "idle" /\ err = "none"
  /\ min_std_dev \in MinStdDevs
  /\ actions = <<>> /\ observations = None /\ nonterminals = None
  /\ T = 0 /\ t = 0 /\ _state = Empty
  /\ beliefs = <<>> /\ prior_states = <<>> /\ prior_means = <<>>
  /\ prior_std_devs = <<>> /\ posterior_states = <<>>
  /\ posterior_means = <<>> /\ posterior_std_devs = <<>>
  /\ hidden = <<>>
  /\ ActorIdle

\* Variants of the definitions below, each the change a plausible slip in
\* the source would make; used to show that the properties depend on the code.
SelectPrior(obs, prior, posterior, i) == prior[i]
SelectAhead(obs, prior, posterior, i) ==
  IF obs.isNone THEN prior[i + 1] ELSE posterior[i + 1]
MaskAppliesAlways(nt, i) == ~nt.isNone
MaskIndexSame(i) == i
ObsIndexUnshifted(i) == i - 1
std_dev_unfloored(raw, floor) == softplus(raw)
SliceFromZero(list, n) == [i \in 1..(n - 1) |-> list[i - 1]]

\* ------------------------------------------------ TransitionModel.forward
\* line 56: the state that feeds the recurrence at step i
SelectState(obs, prior, posterior, i) ==
  IF obs.isNone THEN prior[i] ELSE posterior[i]

\* line 57: whether the mask is applied at step i, and the entry it reads
MaskApplies(nt, i) == ~(nt.isNone \/ i = 0)
MaskIndex(i) == i - 1
Mul(x, m) == IF m = 0 THEN Zero ELSE x    \* x * m for a mask entry m in {0,1}

\* lines 70-71: the observation read at step i (t_ = t - 1, then t_ + 1)
ObsIndex(i) == (i - 1) + 1

\* lines 65 and 73: softplus(raw) + self.min_std_dev
std_dev(raw, floor) == softplus(raw) + floor

\* lines 77-79: torch.stack(list[1:], dim=0).  torch.stack raises on an empty
\* list and on tensors of different shapes (a placeholder has shape (0,)).
Slice(list, n) == [i \in 1..(n - 1) |-> list[i]]
StackOK(list, n) ==
  /\ n - 1 >= 1
  /\ \/ \A i \in 1..(n - 1) : list[i] = Empty
     \/ \A i \in 1..(n - 1) : list[i] # Empty
NumPrior == 4
NumPosterior == 3

\* lines 51-53: read the arguments, preallocate the lists, seed index 0
Forward(L, obs, nt) ==
  /\ pc = "idle"
  /\ actions' = [i \in 1..L |-> Action(i - 1)]
  /\ observations' = obs
  /\ nonterminals' = nt
  /\ T' = L + 1
  /\ beliefs' = [Placeholders(L + 1) EXCEPT ![0] = PrevBelief]
  /\ prior_states' = [Placeholders(L + 1) EXCEPT ![0] = PrevState]
  /\ posterior_states' = [Placeholders(L + 1) EXCEPT ![0] = PrevState]
  /\ prior_means' = Placeholders(L + 1)
  /\ prior_std_devs' = Placeholders(L + 1)
  /\ posterior_means' = Placeholders(L + 1)
  /\ posterior_std_devs' = Placeholders(L + 1)
  /\ t' = 0
  /\ pc' = "loop"
  /\ UNCHANGED <<err, min_std_dev, _state, hidden, avars>>

\* lines 55-74: one iteration of the time loop.  rp and rq are the raw
\* std-dev outputs of fc_state_prior and fc_state_posterior at this step.
LoopStep(rp, rq) ==
  /\ pc = "loop"
  /\ t < T - 1
  /\ LET sel == SelectState(observations, prior_states, posterior_states, t)
         masked == MaskApplies(nonterminals, t)
         maskOK == ~masked \/ IndexInRange(nonterminals.data, MaskIndex(t))
         st == IF masked
                 THEN Mul(sel, Index(nonterminals.data, MaskIndex(t)))
                 ELSE sel
         b == rnn(act_fn(fc_embed_state_action(cat(st, Index(actions, t)))),
                  beliefs[t])
         pm == chunk_mean(fc_state_prior(act_fn(fc_embed_belief_prior(b))))
         ps == Std(std_dev(rp, min_std_dev))
         obsOK == IndexInRange(observations.data, ObsIndex(t))
         qm == chunk_mean(fc_state_posterior(act_fn(fc_embed_belief_posterior(
                 cat(b, Index(observations.data, ObsIndex(t)))))))
         qs == Std(std_dev(rq, min_std_dev))
     IN IF ~maskOK
          THEN \* nonterminals[t-1] raises
               /\ _state' = sel
               /\ pc' = "error" /\ err' = "IndexError"
               /\ UNCHANGED <<t, beliefs, prior_states, prior_means,
                              prior_std_devs, posterior_states,
                              posterior_means, posterior_std_devs>>
          ELSE /\ _state' = st
               /\ beliefs' = [beliefs EXCEPT ![t + 1] = b]
               /\ prior_means' = [prior_means EXCEPT ![t + 1] = pm]
               /\ prior_std_devs' = [prior_std_devs EXCEPT ![t + 1] = ps]
               /\ prior_states' = [prior_states EXCEPT ![t + 1] =
                     Sample(pm, ps, randn_like("prior", t + 1))]
               /\ IF observations.isNone
                    THEN /\ t' = t + 1
                         /\ UNCHANGED <<pc, err, posterior_states,
                                        posterior_means, posterior_std_devs>>
                    ELSE IF ~obsOK
                      THEN \* observations[t_ + 1] raises
                           /\ pc' = "error" /\ err' = "IndexError"
                           /\ UNCHANGED <<t, posterior_states, posterior_means,
                                          posterior_std_devs>>
                      ELSE /\ posterior_means' =
                                [posterior_means EXCEPT ![t + 1] = qm]
                           /\ posterior_std_devs' =
                                [posterior_std_devs EXCEPT ![t + 1] = qs]
                           /\ posterior_states' =
                                [posterior_states EXCEPT ![t + 1] =
                                  Sample(qm, qs, randn_like("posterior", t + 1))]
                           /\ t' = t + 1
                           /\ UNCHANGED <<pc, err>>
  /\ UNCHANGED <<min_std_dev, actions, observations, nonterminals, T, hidden,
                 avars>>

\* lines 77-80: stack the lists from index 1 and return
Return ==
  /\ pc = "loop"
  /\ t = T - 1
  /\ LET priorLists == <<beliefs, prior_states, prior_means, prior_std_devs>>
         postLists == <<posterior_states, posterior_means, posterior_std_devs>>
         ok == /\ \A k \in 1..NumPrior : StackOK(priorLists[k], T)
               /\ observations.isNone
                    \/ \A k \in 1..NumPosterior : StackOK(postLists[k], T)
     IN IF ok
          THEN /\ hidden' =
                    [k \in 1..NumPrior |-> Slice(priorLists[k], T)]
                    \o (IF observations.isNone THEN <<>>
                        ELSE [k \in 1..NumPosterior |-> Slice(postLists[k], T)])
               /\ pc' = "done"
               /\ UNCHANGED err
          ELSE /\ pc' = "error" /\ err' = "RuntimeError"
               /\ UNCHANGED hidden
  /\ UNCHANGED <<min_std_dev, actions, observations, nonterminals, T, t,
                 _state, beliefs, prior_states, prior_means, prior_std_devs,
                 posterior_states, posterior_means, posterior_std_devs, avars>>

ObsArgs(L) == {None} \cup {Some([i \in 1..n |-> Obs(i - 1)]) : n \in Lengths(L)}
MaskArgs(L) == {None} \cup {Some(m) : m \in UNION {Masks(n) : n \in Lengths(L - 1)}}

Next ==
  \/ \E L \in 0..MaxL : \E obs \in ObsArgs(L) : \E nt \in MaskArgs(L) :
       Forward(L, obs, nt)
  \/ \E rp \in RawStdVals : \E rq \in RawStdVals : LoopStep(rp, rq)
  \/ Return

Spec == Init /\ [][Next]_vars

\* ---------------------------------------- ActorModel.forward, SampleDist
ActorMeans == {-1, 0, 1}     \* line 168: mean_scale * tanh(mean / mean_scale)
ActorStds == {1, 2}          \* line 169: softplus(std + raw_init_std) + min_std
Noise == {-1, 0, 1}          \* standard normal draws used by rsample

\* TanhTransform, in thousandths, on the integers -3..3
tanh(z) ==
  CASE z = -3 -> -995 [] z = -2 -> -964 [] z = -1 -> -762 [] z = 0 -> 0
    [] z = 1 -> 762 [] z = 2 -> 964 [] z = 3 -> 995

\* lines 170-173: rsample of the tanh-transformed Normal(mean, std)
rsample(m, s, eps) == tanh(m + s * eps)

RECURSIVE SeqSum(_)
SeqSum(s) == IF s = <<>> THEN 0 ELSE Head(s) + SeqSum(Tail(s))

SampleDist_first(sample) == sample[1]

\* lines 203-207: SampleDist.mean = torch.mean(sample, 0)
SampleDist_mean(sample) == SeqSum(sample) \div Len(sample)

\* lines 162-169: the network maps (parameters, belief, state) to the
\* distribution's mean and std; they are the same in every call made with
\* the same parameters and inputs.
ActorInputs(m, s) ==
  /\ apc = "idle"
  /\ mean' = m /\ std' = s
  /\ apc' = "ready"
  /\ UNCHANGED <<deterministic, draws, action, tvars>>

\* lines 160-186: one call of forward.  eps are the normal draws the call
\* makes: self._samples of them in dist.mean, one in dist.rsample().
ActorForward(det, eps) ==
  /\ apc = "ready"
  /\ Len(action) < 2
  /\ LET n == IF det THEN Samples ELSE 1
         sample == [j \in 1..n |-> rsample(mean, std, eps[j])]
     IN /\ draws' = Append(draws, sample)
        /\ action' = Append(action,
                       IF det THEN SampleDist_mean(sample) ELSE sample[1])
  /\ deterministic' = Append(deterministic, det)
  /\ UNCHANGED <<apc, mean, std, tvars>>

ActorNext ==
  \/ \E m \in ActorMeans : \E s \in ActorStds : ActorInputs(m, s)
  \/ \E det \in BOOLEAN : \E eps \in [1..Samples -> Noise] :
       ActorForward(det, eps)

SpecActor == Init /\ [][ActorNext]_vars

\* ================================================================ claims
Lists == <<beliefs, prior_states, prior_means, prior_std_devs,
           posterior_states, posterior_means, posterior_std_devs>>
L_ == Len(actions)
Called == pc \in {"loop", "done", "error"}
Finished == pc \in {"done", "error"}
ObsGiven == ~observations.isNone
MaskGiven == ~nonterminals.isNone
\* the parts of a belief term rnn(act_fn(fc(cat(state, action))), belief)
FedState(b) == b[2][2][2][2]
FedAction(b) == b[2][2][2][3]
FedBelief(b) == b[3]
\* the embedding inside a posterior mean
\* chunk0(fc_state_posterior(act_fn(fc_embed_belief_posterior(cat(b, e)))))
PostBelief(m) == m[2][2][2][2][2]
PostObs(m) == m[2][2][2][2][3]
Written(j) == beliefs[j] # Empty
ValidLengths ==
  /\ observations.isNone \/ Len(observations.data) = L_
  /\ nonterminals.isNone \/ Len(nonterminals.data) = L_ - 1

\* C1: for actions of length L, forward returns exactly 4 sequences without
\* observations and exactly 7 with observations of matching length, each of
\* length L along the time axis.
C1_ReturnsSequencesOfLengthL ==
  (Finished /\ ValidLengths) =>
    /\ pc = "done"
    /\ Len(hidden) = IF ObsGiven THEN 7 ELSE 4
    /\ \A k \in 1..Len(hidden) : Len(hidden[k]) = L_

\* C2: with a mask supplied, if mask entry k is 0 then the state fed into the
\* belief recurrence at step k+1 is all-zero, whatever the prior/posterior
\* state of that step is.
C2_MaskZeroFeedsZero ==
  (Called /\ MaskGiven) =>
    /\ \A k \in 0..(Len(nonterminals.data) - 1) :
         (k + 2 <= T - 1 /\ Written(k + 2) /\ nonterminals.data[k + 1] = 0)
           => FedState(beliefs[k + 2]) = Zero
    /\ (pc = "loop" /\ t >= 2 /\ nonterminals.data[t - 1] = 0) => _state = Zero

C2_Witness ==
  /\ pc = "done" /\ MaskGiven /\ ObsGiven /\ T >= 3
  /\ nonterminals.data[1] = 0
  /\ Tag(posterior_states[1]) = "sample"
  /\ FedState(beliefs[2]) = Zero

\* C3: forward fails, and never returns a result, whenever the observations
\* length differs from the actions length or the mask length is not the
\* actions length minus one, shorter or longer.
C3_MismatchedLengthsFail ==
  pc = "done" => ValidLengths

\* C4: every returned prior std-dev, and every returned posterior std-dev
\* when observations are given, is >= min_std_dev (so > 0 when
\* min_std_dev > 0), at every returned time step.
C4_StdDevAtLeastFloor ==
  pc = "done" =>
    \A k \in {4, 7} \cap (1..Len(hidden)) : \A i \in 1..Len(hidden[k]) :
      /\ Tag(hidden[k][i]) = "std"
      /\ hidden[k][i][2] >= min_std_dev
      /\ min_std_dev > 0 => hidden[k][i][2] > 0

C4_Witness ==
  /\ pc = "done" /\ ObsGiven /\ T >= 3 /\ min_std_dev = 10
  /\ hidden[4][1][2] = softplus(-3) + 10
  /\ hidden[7][2][2] = softplus(-3) + 10

\* C5 (as stated): two calls with deterministic=True, identical parameters
\* and identical inputs yield identical actions.
C5_DeterministicIdentical ==
  (Len(action) = 2 /\ deterministic = <<TRUE, TRUE>>) => action[1] = action[2]

\* C5 (amended): with deterministic=True the action is the arithmetic mean
\* of the call's `samples` reparameterized draws, so it lies within the range
\* of those draws, and two calls yield identical actions when their draws
\* are identical.
C5_DeterministicIsSampleMean ==
  /\ \A k \in 1..Len(action) : deterministic[k] =>
       /\ Len(draws[k]) = Samples
       /\ Samples * action[k] <= SeqSum(draws[k])
       /\ SeqSum(draws[k]) < Samples * (action[k] + 1)
       /\ \E j \in 1..Samples : draws[k][j] <= action[k]
       /\ \E j \in 1..Samples : draws[k][j] >= action[k]
  /\ (Len(action) = 2 /\ deterministic = <<TRUE, TRUE>> /\ draws[1] = draws[2])
       => action[1] = action[2]

C5_Witness ==
  /\ Len(action) = 2 /\ deterministic = <<TRUE, TRUE>>
  /\ draws[1] # draws[2]
  /\ draws[1][1] # draws[1][2]
  /\ action[1] # action[2]

\* C6: index 0 of beliefs/prior_states/posterior_states holds the supplied
\* prev_belief/prev_state and is excluded from the result: element i
\* (0-based) of each returned sequence is internal index i+1, the first
\* returned belief is the belief after one recurrence step, and the supplied
\* initial belief/state is not in the output.
C6_IndexZeroExcluded ==
  /\ Called =>
       /\ beliefs[0] = PrevBelief
       /\ prior_states[0] = PrevState
       /\ posterior_states[0] = PrevState
  /\ pc = "done" =>
       /\ \A k \in 1..Len(hidden) :
            /\ Len(hidden[k]) = T - 1
            /\ \A i \in 0..(T - 2) : hidden[k][i + 1] = Lists[k][i + 1]
       /\ hidden[1][1] =
            rnn(act_fn(fc_embed_state_action(cat(PrevState, Action(0)))),
                PrevBelief)
       /\ \A i \in 1..(T - 1) :
            /\ hidden[1][i] # PrevBelief
            /\ hidden[2][i] # PrevState
            /\ ObsGiven => hidden[5][i] # PrevState

C6_Witness ==
  /\ pc = "done" /\ ObsGiven /\ T >= 3
  /\ Len(hidden) = 7
  /\ hidden[1][2] = beliefs[2]
  /\ FedBelief(hidden[1][1]) = PrevBelief

\* C7: the first recurrence step feeds the supplied prev_state and
\* prev_belief unmasked whatever the mask holds; the mask is applied from the
\* second step on, so a mask of T-2 entries (0..T-3) is enough: no mask index
\* is read out of range or by negative wrap-around.
C7_FirstStepUnmasked ==
  /\ (Called /\ T >= 2 /\ Written(1)) =>
       beliefs[1] =
         rnn(act_fn(fc_embed_state_action(cat(PrevState, Action(0)))),
             PrevBelief)
  /\ (pc = "loop" /\ t = 1) => _state = PrevState
  /\ (Called /\ T >= 2 /\ (pc = "loop" => t >= 1)) => Written(1)
  /\ (Called /\ MaskGiven /\ Len(nonterminals.data) = T - 2
        /\ (ObsGiven => Len(observations.data) >= T - 1))
       => err # "IndexError"

C7_Witness ==
  /\ pc = "done" /\ MaskGiven /\ T >= 3
  /\ Len(nonterminals.data) = T - 2
  /\ \A k \in 1..(T - 2) : nonterminals.data[k] = 0
  /\ FedState(beliefs[1]) = PrevState
  /\ FedState(beliefs[2]) = Zero

\* C8: at every step t the state fed into the belief recurrence is the
\* posterior state of step t when observations were supplied and the prior
\* state of step t otherwise (masked where the mask says so); with
\* observations the sampled prior never feeds a later belief, and without
\* observations no posterior value is written or returned.
C8_StateSelection ==
  Called =>
    /\ \A j \in 1..(T - 1) : Written(j) =>
         LET sel == IF ObsGiven THEN posterior_states[j - 1]
                    ELSE prior_states[j - 1]
             zeroed == MaskGiven /\ j >= 2 /\ nonterminals.data[j - 1] = 0
         IN /\ FedState(beliefs[j]) = IF zeroed THEN Zero ELSE sel
            /\ (j >= 2 /\ ~zeroed) =>
                 FedState(beliefs[j])[4] =
                   randn_like(IF ObsGiven THEN "posterior" ELSE "prior", j - 1)
    /\ ~ObsGiven =>
         /\ \A j \in 1..(T - 1) :
              /\ posterior_states[j] = Empty
              /\ posterior_means[j] = Empty
              /\ posterior_std_devs[j] = Empty
         /\ pc = "done" => Len(hidden) = 4

C8_Witness ==
  /\ pc = "done" /\ ObsGiven /\ T >= 3
  /\ FedState(beliefs[2]) = posterior_states[1]
  /\ FedState(beliefs[2]) # prior_states[1]

\* C9: with embeddings of the same length as actions, the posterior of each
\* step is computed from concat(that step's belief, that step's embedding):
\* the belief produced by action i is paired with embedding i, every
\* embedding is used exactly once and none outside the sequence is read.
C9_PosteriorUsesOwnEmbedding ==
  (Called /\ ObsGiven) =>
    /\ \A j \in 1..(T - 1) : posterior_means[j] # Empty =>
         /\ PostBelief(posterior_means[j]) = beliefs[j]
         /\ FedAction(beliefs[j]) = Action(j - 1)
         /\ PostObs(posterior_means[j]) = Obs(j - 1)
         /\ posterior_states[j][2] = posterior_means[j]
    /\ (pc = "done" /\ Len(observations.data) = L_) =>
         \A i \in 0..(Len(observations.data) - 1) :
           Cardinality({j \in 1..(T - 1) :
                          PostObs(posterior_means[j])[2] = i}) = 1
    /\ (Len(observations.data) = L_
          /\ (MaskGiven => Len(nonterminals.data) >= L_ - 1))
         => err # "IndexError"

C9_Witness ==
  /\ pc = "done" /\ ObsGiven /\ T >= 3
  /\ Len(observations.data) = L_
  /\ PostObs(posterior_means[1]) = Obs(0)
  /\ PostObs(posterior_means[T - 1]) = Obs(L_ - 1)

\* C10: the working lists are filled strictly in time order: slot t+1 of
\* beliefs is computed from slot t of beliefs and the selected state of slot
\* t, each slot 1..T-1 is written exactly once, and no placeholder is ever
\* read as a recurrence input or included in a returned sequence.
C10_Step ==
  /\ \A k \in 1..7 : \A j \in DOMAIN Lists[k] :
       Lists[k][j] # Empty => Lists[k]'[j] = Lists[k][j]
  /\ pc' \in {"loop", "done"} =>
       \A j \in 1..(T' - 1) :
         /\ \A k \in 1..4 : (Lists[k]'[j] # Empty) <=> (j <= t')
         /\ \A k \in 5..7 : (Lists[k]'[j] # Empty) <=> (ObsGiven' /\ j <= t')
  /\ (pc = "loop" /\ beliefs' # beliefs) =>
       /\ beliefs[t] # Empty
       /\ beliefs[t + 1] = Empty
       /\ FedBelief(beliefs'[t + 1]) = beliefs[t]
       /\ _state' # Empty
       /\ FedState(beliefs'[t + 1]) = _state'
       /\ _state' \in {Zero, IF ObsGiven THEN posterior_states[t]
                             ELSE prior_states[t]}
  /\ pc' = "done" =>
       /\ t' = T' - 1
       /\ \A k \in 1..Len(hidden') : \A i \in 1..Len(hidden'[k]) :
            hidden'[k][i] # Empty

C10_FilledInTimeOrder == [][C10_Step]_vars

C10_Witness ==
  /\ pc = "done" /\ ObsGiven /\ T >= 4
  /\ \A k \in 1..7 : \A j \in 1..(T - 1) : Lists[k][j] # Empty
====
